---- MODULE Spec2Model ----
(***************************************************************************)
(* Model of deb2aci (src/main.go): the dependency closure resolver         *)
(* (convert / download / parseDeps) and the filesystem and manifest        *)
(* assembler (createACI).                                                  *)
(*                                                                         *)
(* Strings are sequences of one-character strings, so that trimming and    *)
(* splitting are computed character by character as the Go code does.      *)
(***************************************************************************)
EXTENDS Integers, Sequences, FiniteSets, TLC

VARIABLES
    line,       \* parseDeps: the argument `line`
    deps,       \* parseDeps: the returned slice
    ppc,        \* parseDeps: "idle" | "call" | "returned"
    pkgs,       \* convert: the root package names, in command-line order
    repo,       \* the package repository apt-get downloads from: name -> archive
    base,       \* the manifest as readManifest returned it
    cpc,        \* convert: "start" | "download" | "createACI" | "pack" |
                \*          "returned"
    rootIdx,    \* convert: index of the root the loop of lines 93-97 is at
    stack,      \* the active calls of download, outermost first
    done,       \* the map fs/done: package name -> deb
    extracted,  \* the pkg temp directories: tdir -> the tree under tdir/out
    dirExists,  \* whether the working directory `dir` exists
    cmdLog,     \* the commands run so far, in order: [cmd, arg]
    iterated,   \* createACI: the keys the range loop has already yielded
    rootfs,     \* the merged root filesystem: path -> the package the file is of
    manifest,   \* m.Annotations
    manifestFile, \* the manifest file in idir: <<>> or <<annotations written>>
    image,      \* what actool built: <<>> or <<[rootfs, manifest]>>
    err,        \* the error convert returns: <<>> (nil) or <<kind, name>>
    rpc,        \* run: "idle" | "pipes" | "start" | "wait" | "returned"
    rret,       \* run: the error returned: "none" | "nil" | "pipe" | "start" |
                \*      "exit status"
    proc,       \* the command's process: "none" | "running" | "exited"
    exit,       \* what Wait reports for the process: "none" | "nil" |
                \*      "exit status"
    written,    \* fd -> the chunks the process wrote to its end of the pipe
    shown,      \* fd -> the chunks io.Copy wrote to os.Stdout / os.Stderr
    rclosed,    \* whether the read ends of the pipes are closed
    gor,        \* fd -> the goroutine of io.Copy: "none" | "copying" | "done"
    rcaller     \* the caller of run: "idle" | "in run" | "next"

parseVars == <<line, deps, ppc>>
convVars == <<pkgs, repo, base, cpc, rootIdx, stack, done, extracted, dirExists,
              cmdLog, iterated, rootfs, manifest, manifestFile, image, err>>
runVars == <<rpc, rret, proc, exit, written, shown, rclosed, gor, rcaller>>
vars == <<line, deps, ppc, pkgs, repo, base, cpc, rootIdx, stack, done,
          extracted, dirExists, cmdLog, iterated, rootfs, manifest,
          manifestFile, image, err, rpc, rret, proc, exit, written, shown,
          rclosed, gor, rcaller>>

(***************************************************************************)
(* Bounds                                                                  *)
(***************************************************************************)
MaxLineLen == 4

(***************************************************************************)
(* Strings                                                                 *)
(***************************************************************************)
\* unicode.IsSpace on the characters of the model: space and tab (the tab
\* stands for every white space character that is not U+0020).
IsSpace(c) == c \in {" ", "\t"}

RECURSIVE TrimLeft(_)
TrimLeft(s) ==
    IF s = <<>> THEN <<>>
    ELSE IF IsSpace(Head(s)) THEN TrimLeft(Tail(s)) ELSE s

RECURSIVE TrimRight(_)
TrimRight(s) ==
    IF s = <<>> THEN <<>>
    ELSE IF IsSpace(s[Len(s)]) THEN TrimRight(SubSeq(s, 1, Len(s) - 1)) ELSE s

\* White space left where it is.
TrimSpaceNone(s) == s

\* strings.TrimSpace
TrimSpace(s) == TrimRight(TrimLeft(s))

\* strings.Split(s, sep) for a one-character separator: always at least one
\* element; Split("", sep) is [""].
RECURSIVE SplitFrom(_, _, _)
SplitFrom(s, sep, cur) ==
    IF s = <<>> THEN <<cur>>
    ELSE IF Head(s) = sep THEN <<cur>> \o SplitFrom(Tail(s), sep, <<>>)
    ELSE SplitFrom(Tail(s), sep, Append(cur, Head(s)))

Split(s, sep) == SplitFrom(s, sep, <<>>)

\* The loop body of parseDeps: o := strings.Split(strings.TrimSpace(p), " ");
\* deps[i] = o[0].
FirstOfClause(p) == Split(TrimSpace(p), " ")[1]

parseDeps(l) ==
    LET t == TrimSpace(l) IN
    IF Len(t) = 0 THEN <<>>
    ELSE LET parts == Split(t, ",") IN
         IF Len(parts) = 0 THEN <<>>
         ELSE [i \in 1..Len(parts) |-> FirstOfClause(parts[i])]

(***************************************************************************)
(* Inputs of parseDeps                                                     *)
(***************************************************************************)
LineAlphabet == {"a", "b", ",", " ", "\t", "|"}

RECURSIVE SeqsUpTo(_, _)
SeqsUpTo(S, n) ==
    IF n = 0 THEN {<<>>}
    ELSE LET shorter == SeqsUpTo(S, n - 1) IN
         shorter \cup {Append(s, c) : s \in shorter, c \in S}

\* "libc6 (>= 2.14), libssl1.1" and "foo | bar"
LibcLine ==
    <<"l","i","b","c","6"," ","(",">","="," ","2",".","1","4",")",",",
      " ","l","i","b","s","s","l","1",".","1">>
FooBarLine == <<"f","o","o"," ","|"," ","b","a","r">>

Lines == SeqsUpTo(LineAlphabet, MaxLineLen) \cup {LibcLine, FooBarLine}

(***************************************************************************)
(* Specification of parseDeps alone                                        *)
(***************************************************************************)
\* The pipeline does not run in this specification.
ConvIdle ==
    /\ pkgs = <<>>
    /\ repo = <<>>
    /\ base = <<>>
    /\ cpc = "idle"
    /\ rootIdx = 1
    /\ stack = <<>>
    /\ done = <<>>
    /\ extracted = <<>>
    /\ dirExists = FALSE
    /\ cmdLog = <<>>
    /\ iterated = {}
    /\ rootfs = <<>>
    /\ manifest = <<>>
    /\ manifestFile = <<>>
    /\ image = <<>>
    /\ err = <<>>

\* The two streams of a command.
Fds == {"stdout", "stderr"}

\* No call of run is looked into.
RunIdle ==
    /\ rpc = "idle"
    /\ rret = "none"
    /\ proc = "none"
    /\ exit = "none"
    /\ written = [fd \in Fds |-> 0]
    /\ shown = [fd \in Fds |-> 0]
    /\ rclosed = FALSE
    /\ gor = [fd \in Fds |-> "none"]
    /\ rcaller = "idle"

ParseInit ==
    /\ line \in Lines
    /\ deps = <<>>
    /\ ppc = "call"
    /\ ConvIdle
    /\ RunIdle

ParseDepsCall ==
    /\ ppc = "call"
    /\ deps' = parseDeps(line)
    /\ ppc' = "returned"
    /\ UNCHANGED line
    /\ UNCHANGED convVars
    /\ UNCHANGED runVars

ParseNext == ParseDepsCall

SpecParse == ParseInit /\ [][ParseNext]_vars

(***************************************************************************)
(* Package names and the repository                                        *)
(***************************************************************************)
MaxDeps == 2      \* dependencies per package in the generated repositories
MaxRoots == 2     \* root names on the command line
NumPaths == 2     \* relative paths a package tree may hold
MaxDepth == 8     \* call depth of download the Go stack is given
MaxChunks == 2    \* chunks a command writes to each of its two streams

PkgA == <<"a">>
PkgB == <<"b">>
PkgC == <<"c">>
PkgD == <<"d">>
PkgAPlus == <<"a", "+">>
PkgAPlusPlusB == <<"a", "+", "+", "b">>
NoName == <<>>

Names == {PkgA, PkgB, PkgC, PkgD, PkgAPlus, PkgAPlusPlusB, NoName}

Paths == 1..NumPaths

Amd64 == <<"a", "m", "d", "6", "4">>
All == <<"a", "l", "l">>

\* The Architecture and Version fields of the archive of each name.
ArchOf(n) == IF n \in {PkgB, PkgD} THEN All ELSE Amd64
VersionOf(n) ==
    CASE n = PkgA -> <<"1", ".", "0">>
      [] n = PkgB -> <<"2", ".", "1", "-", "3">>
      [] n = PkgC -> <<"3">>
      [] n = PkgD -> <<"4", "+", "d">>
      [] n = PkgAPlus -> <<"5">>
      [] n = PkgAPlusPlusB -> <<"6">>
      [] OTHER -> <<"0">>

\* A Depends field naming the packages of ds, as dpkg writes it.
RECURSIVE JoinDeps(_)
JoinDeps(ds) ==
    IF ds = <<>> THEN <<>>
    ELSE IF Len(ds) = 1 THEN ds[1]
    ELSE ds[1] \o <<",", " ">> \o JoinDeps(Tail(ds))

\* The relative paths of the files in the archive of each name: a and b
\* collide on path 1, b, c and d on the last path.
FilesOf(n) ==
    CASE n \in {PkgA, NoName} -> {1}
      [] n \in {PkgB, PkgD} -> Paths
      [] n \in {PkgC, PkgAPlus} -> {NumPaths}
      [] OTHER -> {}

Archive(n, depends) ==
    [Depends |-> depends, Architecture |-> ArchOf(n), Version |-> VersionOf(n),
     Files |-> FilesOf(n)]

\* A repository in which the packages of DOMAIN decl declare decl[n] and every
\* other package declares nothing.
Repo(decl) ==
    [n \in Names |-> Archive(n, IF n \in DOMAIN decl THEN decl[n] ELSE <<>>)]

DepLists == SeqsUpTo({PkgA, PkgB}, MaxDeps)

\* Every dependency graph over the two names a and b.
TwoNameRepos ==
    {Repo((PkgA :> JoinDeps(da)) @@ (PkgB :> JoinDeps(db))) :
        da \in DepLists, db \in DepLists}

\* a: "b (>= 1), c"   b: "d"   c: "d | a"   d: ""
DiamondRepo ==
    Repo((PkgA :> <<"b", " ", "(", ">", "=", " ", "1", ")", ",", " ", "c">>)
         @@ (PkgB :> <<"d">>)
         @@ (PkgC :> <<"d", " ", "|", " ", "a">>))

\* a -> b -> c -> a
CycleRepo ==
    Repo((PkgA :> <<"b">>) @@ (PkgB :> <<"c">>) @@ (PkgC :> <<" ", "a", " ">>))

\* a: "a+"
PlusRepo == Repo(PkgA :> <<"a", "+">>)

\* a: "b,"   b: "a++b"
OddNamesRepo ==
    Repo((PkgA :> <<"b", ",">>) @@ (PkgB :> <<"a", "+", "+", "b">>))

Repos == TwoNameRepos \cup {DiamondRepo, CycleRepo, PlusRepo, OddNamesRepo}

RootSeqs == SeqsUpTo({PkgA, PkgB}, MaxRoots) \ {<<>>}

(***************************************************************************)
(* appc/spec schema/types: identifiers and annotations                     *)
(***************************************************************************)
Letters ==
    {"a", "b", "c", "d", "e", "f", "g", "h", "i", "j", "k", "l", "m", "n",
     "o", "p", "q", "r", "s", "t", "u", "v", "w", "x", "y", "z"}
Digits == {"0", "1", "2", "3", "4", "5", "6", "7", "8", "9"}
Separators == {"-", ".", "_", "~", "/"}

ToLower(c) == CASE c = "A" -> "a" [] c = "B" -> "b" [] OTHER -> c

SanitizeChar(c) ==
    IF ToLower(c) \in Letters \cup Digits \cup Separators THEN ToLower(c) ELSE "_"

RECURSIVE TrimSepLeft(_)
TrimSepLeft(s) ==
    IF s = <<>> THEN <<>>
    ELSE IF Head(s) \in Separators THEN TrimSepLeft(Tail(s)) ELSE s

RECURSIVE TrimSepRight(_)
TrimSepRight(s) ==
    IF s = <<>> THEN <<>>
    ELSE IF s[Len(s)] \in Separators
         THEN TrimSepRight(SubSeq(s, 1, Len(s) - 1)) ELSE s

\* types.SanitizeACIdentifier: lower-cases, rewrites every character outside
\* [a-z0-9-._~/] to "_", strips separators at both ends; "" is an error.
SanitizeACIdentifier(s) ==
    LET r == TrimSepRight(TrimSepLeft([i \in 1..Len(s) |-> SanitizeChar(s[i])]))
    IN [ok |-> r # <<>>, id |-> r]

\* types.NewACIdentifier: the identifier must match
\* ^[a-z0-9]+([-._~/][a-z0-9]+)*$
ValidACIdentifier(s) ==
    /\ s # <<>>
    /\ \A i \in 1..Len(s) : s[i] \in Letters \cup Digits \cup Separators
    /\ s[1] \notin Separators
    /\ s[Len(s)] \notin Separators
    /\ \A i \in 1..(Len(s) - 1) : ~(s[i] \in Separators /\ s[i + 1] \in Separators)

\* types.Annotations.Set: the value of the annotation of that name is
\* replaced in place when there is one, and the annotation appended otherwise.
AnnotationsSet(annos, name, value) ==
    IF \E i \in 1..Len(annos) : annos[i].name = name
    THEN [i \in 1..Len(annos) |->
            IF annos[i].name = name THEN [name |-> name, value |-> value]
            ELSE annos[i]]
    ELSE Append(annos, [name |-> name, value |-> value])

DebPrefix ==
    <<"d", "e", "b", "i", "a", "n", ".", "o", "r", "g", "/", "d", "e", "b", "/">>

\* fmt.Sprintf("debian.org/deb/%v", d.Name)
IdentifierOf(name) == DebPrefix \o name

\* fmt.Sprintf("%v/%v", d.Arch, d.Version)
\* The value written with its two fields in the other order.
ValueOfVersionFirst(d) == d.Version \o <<"/">> \o d.Arch

\* d.Arch + "/" + d.Version, line 123
ValueOf(d) == d.Arch \o <<"/">> \o d.Version

\* The manifests readManifest may return: their annotations.
NoteName == <<"n", "o", "t", "e">>
OldValue == <<"o", "l", "d">>
BaseManifests ==
    { <<>>,
      <<[name |-> NoteName, value |-> OldValue]>>,
      <<[name |-> IdentifierOf(PkgA), value |-> OldValue],
        [name |-> NoteName, value |-> OldValue]>> }

(***************************************************************************)
(* convert and download                                                    *)
(***************************************************************************)
Init ==
    /\ line = <<>>
    /\ deps = <<>>
    /\ ppc = "idle"
    /\ pkgs \in RootSeqs
    /\ repo \in Repos
    /\ base \in BaseManifests
    /\ cpc = "start"
    /\ rootIdx = 1
    /\ stack = <<>>
    /\ done = <<>>
    /\ extracted = <<>>
    /\ dirExists = FALSE
    /\ cmdLog = <<>>
    /\ iterated = {}
    /\ rootfs = <<>>
    /\ manifest = base
    /\ manifestFile = <<>>
    /\ image = <<>>
    /\ err = <<>>
    /\ RunIdle

\* The removal written at the end of convert instead of deferred: it runs on
\* the successful path only.
ConvertReturnsNoDefer(e) ==
    /\ cpc' = "returned"
    /\ err' = e
    /\ stack' = <<>>
    /\ dirExists' = (IF e = <<>> THEN FALSE ELSE dirExists)
    /\ extracted' = (IF e = <<>> THEN <<>> ELSE extracted)
    /\ rootfs' = (IF e = <<>> THEN <<>> ELSE rootfs)
    /\ manifestFile' = (IF e = <<>> THEN <<>> ELSE manifestFile)

\* convert returns e after line 90: the deferred function of lines 86-90
\* removes the working directory and everything under it.  os.RemoveAll is
\* taken to succeed; its own failure is only logged (line 88).
ConvertReturns(e) ==
    /\ cpc' = "returned"
    /\ err' = e
    /\ stack' = <<>>
    /\ dirExists' = FALSE
    /\ extracted' = <<>>
    /\ rootfs' = <<>>
    /\ manifestFile' = <<>>

\* convert, lines 81-90: the working directory is made and its removal
\* deferred; when TempDir fails convert returns at once.
ConvertStart ==
    /\ cpc = "start"
    /\ \E ok \in BOOLEAN :
        IF ok
        THEN /\ dirExists' = TRUE
             /\ cpc' = "download"
             /\ err' = err
        ELSE /\ dirExists' = dirExists
             /\ cpc' = "returned"
             /\ err' = <<"tempdir", NoName>>
    /\ UNCHANGED runVars
    /\ UNCHANGED <<parseVars, pkgs, repo, base, rootIdx, stack, done, extracted,
                   cmdLog, iterated, rootfs, manifest, manifestFile,
                   image>>

Range(f) == {f[x] : x \in DOMAIN f}

Count(x, log) == Cardinality({i \in 1..Len(log) : log[i] = x})

\* One entry of the command log: run (lines 110, 133, 153) and WriteFile
\* (line 130).
Cmd(c, arg) == [cmd |-> c, arg |-> arg]

\* The arguments of the commands c in the log, in order.
RECURSIVE ArgsOf(_, _)
ArgsOf(c, log) ==
    IF log = <<>> THEN <<>>
    ELSE (IF Head(log).cmd = c THEN <<Head(log).arg>> ELSE <<>>)
         \o ArgsOf(c, Tail(log))

\* The names apt-get download was run for, and the names cp was run for.
FetchLog == ArgsOf("apt-get", cmdLog)
CopyLog == ArgsOf("cp", cmdLog)

Top == stack[Len(stack)]

\* A call of download is about to be made: by the loop of convert (lines
\* 93-97) or by the loop of the innermost active download (lines 195-199).
HasCallee ==
    IF stack = <<>> THEN rootIdx <= Len(pkgs) ELSE Top.i <= Len(Top.deps)

Callee == IF stack = <<>> THEN pkgs[rootIdx] ELSE Top.deps[Top.i]

\* The caller's loop moves to its next element.
AdvancedStack(st) ==
    IF st = <<>> THEN st ELSE [st EXCEPT ![Len(st)].i = @ + 1]

AdvancedRoot(st) == IF st = <<>> THEN rootIdx + 1 ELSE rootIdx

\* The check of line 142 left out.
IsDoneNever(pkg) == FALSE

\* done[pkg] != nil, line 142
IsDone(pkg) == pkg \in DOMAIN done

\* download, lines 142-145: the package is in the map, nothing is fetched.
DownloadSkip ==
    /\ cpc = "download"
    /\ HasCallee
    /\ IsDone(Callee)
    /\ stack' = AdvancedStack(stack)
    /\ rootIdx' = AdvancedRoot(stack)
    /\ UNCHANGED runVars
    /\ UNCHANGED <<parseVars, pkgs, repo, base, cpc, done, extracted, dirExists,
                   cmdLog, iterated, rootfs, manifest, manifestFile,
                   image, err>>

\* The steps of download that can fail, in the order of lines 147-191; glob0
\* and glob2 are the Glob of line 158 matching no archive and two.
FetchFailures ==
    {"tempdir", "aptget", "glob0", "glob2", "extract", "arch", "version",
     "depends"}

\* The deb of lines 180-185.
Deb(pkg, tdir) ==
    [Name |-> pkg, Path |-> tdir,
     Arch |-> repo[pkg].Architecture, Version |-> repo[pkg].Version]

\* done[pkg] = &deb{...}, line 180
Record(pkg, d) == (pkg :> d) @@ done

\* The failures after which line 180 has run.
RecordedBefore(outcome) == outcome \in {"depends", "ok"}

\* The loop over deps running from the last element to the first.
FrameReversed(pkg) ==
    LET ds == parseDeps(repo[pkg].Depends)
    IN [pkg |-> pkg, deps |-> [k \in 1..Len(ds) |-> ds[Len(ds) + 1 - k]], i |-> 1]

\* The loop over deps starting at its second element.
FrameSkipFirst(pkg) ==
    [pkg |-> pkg, deps |-> parseDeps(repo[pkg].Depends), i |-> 2]

\* deps := parseDeps(string(out)) and the loop of lines 195-199 at its start.
Frame(pkg) ==
    [pkg |-> pkg, deps |-> parseDeps(repo[pkg].Depends), i |-> 1]

\* The error of a recursive call logged and dropped instead of returned: the
\* caller's loop goes on.
FetchFailsSwallowed(outcome, pkg) ==
    IF stack = <<>>
    THEN ConvertReturns(<<outcome, pkg>>)
    ELSE /\ err' = <<outcome, pkg>>
         /\ stack' = AdvancedStack(stack)
         /\ UNCHANGED <<cpc, dirExists, extracted, rootfs, manifestFile>>

\* A failing step tried once more before its error is returned.
FetchFailsRetried(outcome, pkg) ==
    IF Count(pkg, FetchLog) >= 1
    THEN ConvertReturns(<<outcome, pkg>>)
    ELSE UNCHANGED <<cpc, err, stack, dirExists, extracted, rootfs,
                     manifestFile>>

\* A failing step of download returns its error (lines 149-190), every active
\* call returns it in turn (lines 196-198) and so does convert (lines 94-96).
FetchFails(outcome, pkg) == ConvertReturns(<<outcome, pkg>>)

\* download, lines 147-202 up to the first recursive call: the package is
\* fetched, extracted, recorded and its Depends field parsed; a failing step
\* returns its error through every active call to convert.
DownloadFetch ==
    /\ cpc = "download"
    /\ HasCallee
    /\ ~IsDone(Callee)
    /\ Len(stack) < MaxDepth
    /\ LET pkg == Callee
           tdir == Len(extracted) + 1
           tree == [p \in repo[pkg].Files |-> pkg]
       IN \E outcome \in FetchFailures \cup {"ok"} :
           /\ cmdLog' = IF outcome = "tempdir" THEN cmdLog
                        ELSE Append(cmdLog, Cmd("apt-get", pkg))
           /\ done' = IF RecordedBefore(outcome)
                      THEN Record(pkg, Deb(pkg, tdir)) ELSE done
           /\ IF outcome = "ok"
              THEN /\ extracted' = Append(extracted, tree)
                   /\ stack' = Append(stack, Frame(pkg))
                   /\ UNCHANGED <<cpc, err, dirExists, rootfs, manifestFile>>
              ELSE FetchFails(outcome, pkg)
    /\ UNCHANGED runVars
    /\ UNCHANGED <<parseVars, pkgs, repo, base, rootIdx, iterated, manifest,
                   image>>

\* download, line 201: the loop over deps is over, the call returns nil.
DownloadReturn ==
    /\ cpc = "download"
    /\ stack # <<>>
    /\ ~HasCallee
    /\ LET caller == SubSeq(stack, 1, Len(stack) - 1)
       IN /\ stack' = AdvancedStack(caller)
          /\ rootIdx' = AdvancedRoot(caller)
    /\ UNCHANGED runVars
    /\ UNCHANGED <<parseVars, pkgs, repo, base, cpc, done, extracted, dirExists,
                   cmdLog, iterated, rootfs, manifest, manifestFile,
                   image, err>>

(***************************************************************************)
(* createACI                                                               *)
(***************************************************************************)
\* convert, line 98, and createACI, lines 102-107: the closure is complete,
\* the image directory and its rootfs are made.
CreateACIEnter ==
    /\ cpc = "download"
    /\ stack = <<>>
    /\ ~HasCallee
    /\ \E ok \in BOOLEAN :
        IF ok
        THEN /\ cpc' = "createACI"
             /\ UNCHANGED <<err, stack, dirExists, extracted, rootfs,
                            manifestFile>>
        ELSE ConvertReturns(<<"tempdir", NoName>>)
    /\ UNCHANGED runVars
    /\ UNCHANGED <<parseVars, pkgs, repo, base, rootIdx, done, cmdLog, iterated,
                   manifest, image>>

\* The tree put in the place of the root filesystem instead of into it.
CopyTreeReplace(tree, fs) == tree

\* cp -n: a file already in the root filesystem is kept.
CopyTreeNoClobber(tree, fs) == fs @@ tree

\* cp -a d.Path/. rootfs: every file of the tree is written over whatever the
\* root filesystem holds at its path.
CopyTree(tree, fs) == tree @@ fs

\* The annotation put in front of the manifest's annotations.
AnnotateInFront(annos, id, d) ==
    <<[name |-> id, value |-> ValueOf(d)]>> \o annos

\* m.Annotations.Set(*a, fmt.Sprintf("%v/%v", d.Arch, d.Version)), line 123
Annotate(annos, id, d) == AnnotationsSet(annos, id, ValueOf(d))

\* A range that may yield a key it has yielded before.
RangeKeysAgain == DOMAIN done

\* for name, d := range debs, line 109: the keys range has still to yield;
\* any of them may be the next.
RangeKeys == DOMAIN done \ iterated

\* The body of the loop of lines 109-125 for one key of the map, which range
\* yields in no particular order.
CreateACILoop ==
    /\ cpc = "createACI"
    /\ \E name \in RangeKeys :
        LET d == done[name]
            tree == extracted[d.Path]
            san == SanitizeACIdentifier(IdentifierOf(d.Name))
        IN /\ iterated' = iterated \cup {name}
           /\ cmdLog' = Append(cmdLog, Cmd("cp", name))
           /\ \/ \* cp fails
                 /\ ConvertReturns(<<"cp", name>>)
                 /\ UNCHANGED manifest
              \/ \* cp succeeds
                 /\ IF ~san.ok
                    THEN /\ ConvertReturns(<<"sanitize", name>>)
                         /\ UNCHANGED manifest
                    ELSE IF ~ValidACIdentifier(san.id)
                    THEN /\ ConvertReturns(<<"identifier", name>>)
                         /\ UNCHANGED manifest
                    ELSE /\ rootfs' = CopyTree(tree, rootfs)
                         /\ manifest' = Annotate(manifest, san.id, d)
                         /\ UNCHANGED <<cpc, err, stack, dirExists, extracted,
                                        manifestFile>>
    /\ UNCHANGED runVars
    /\ UNCHANGED <<parseVars, pkgs, repo, base, rootIdx, done, image>>

\* The manifest written without waiting for the end of the loop.
LoopOverAtOnce == TRUE

\* The loop of lines 109-125 has yielded every key of the map.
LoopOver == iterated = DOMAIN done

\* createACI, lines 126-132: the manifest is serialized and written.
WriteManifest ==
    /\ cpc = "createACI"
    /\ LoopOver
    /\ \E outcome \in {"ok", "marshal", "write"} :
        /\ cmdLog' = IF outcome = "marshal" THEN cmdLog
                     ELSE Append(cmdLog, Cmd("write", NoName))
        /\ IF outcome = "ok"
           THEN /\ manifestFile' = <<manifest>>
                /\ cpc' = "pack"
                /\ UNCHANGED <<err, stack, dirExists, extracted, rootfs>>
           ELSE ConvertReturns(<<outcome, NoName>>)
    /\ UNCHANGED runVars
    /\ UNCHANGED <<parseVars, pkgs, repo, base, rootIdx, done, iterated,
                   manifest, image>>

\* createACI, lines 133-136, and the return of convert: actool builds the
\* image from the image directory.
Pack ==
    /\ cpc = "pack"
    /\ \E ok \in BOOLEAN :
        IF ok
        THEN /\ image' = <<[rootfs |-> rootfs, manifest |-> manifestFile[1]]>>
             /\ ConvertReturns(<<>>)
        ELSE /\ image' = image
             /\ ConvertReturns(<<"actool", NoName>>)
    /\ cmdLog' = Append(cmdLog, Cmd("actool", NoName))
    /\ UNCHANGED runVars
    /\ UNCHANGED <<parseVars, pkgs, repo, base, rootIdx, done, iterated,
                   manifest>>

Next ==
    \/ ConvertStart
    \/ DownloadSkip
    \/ DownloadFetch
    \/ DownloadReturn
    \/ CreateACIEnter
    \/ CreateACILoop
    \/ WriteManifest
    \/ Pack

Spec == Init /\ [][Next]_vars

\* The pipeline is one goroutine, which runs whenever it can take a step.
FairSpec == Spec /\ WF_vars(Next)

(***************************************************************************)
(* run                                                                     *)
(***************************************************************************)
\* One call of run(cmd) by the pipeline, looked into step by step; the
\* pipeline and parseDeps stand still.
RunInit ==
    /\ line = <<>>
    /\ deps = <<>>
    /\ ppc = "idle"
    /\ ConvIdle
    /\ rpc = "pipes"
    /\ rret = "none"
    /\ proc = "none"
    /\ exit = "none"
    /\ written = [fd \in Fds |-> 0]
    /\ shown = [fd \in Fds |-> 0]
    /\ rclosed = FALSE
    /\ gor = [fd \in Fds |-> "none"]
    /\ rcaller = "in run"

\* run, lines 264-273: the two pipes are made; when making one fails run
\* returns that error, otherwise the two goroutines of io.Copy are started.
RunPipes ==
    /\ rpc = "pipes"
    /\ \E outcome \in {"ok", "stdoutpipe", "stderrpipe"} :
        IF outcome = "ok"
        THEN /\ gor' = [fd \in Fds |-> "copying"]
             /\ rpc' = "start"
             /\ UNCHANGED rret
        ELSE /\ rpc' = "returned"
             /\ rret' = "pipe"
             /\ UNCHANGED gor
    /\ UNCHANGED <<proc, exit, written, shown, rclosed, rcaller>>
    /\ UNCHANGED <<parseVars, convVars>>

\* cmd.Run, line 274, its first half (Start): the process is started; when
\* that fails the pipes are closed and run returns the error.
RunStart ==
    /\ rpc = "start"
    /\ \E ok \in BOOLEAN :
        IF ok
        THEN /\ proc' = "running"
             /\ rpc' = "wait"
             /\ UNCHANGED <<rret, rclosed>>
        ELSE /\ rpc' = "returned"
             /\ rret' = "start"
             /\ rclosed' = TRUE
             /\ UNCHANGED proc
    /\ UNCHANGED <<exit, written, shown, gor, rcaller>>
    /\ UNCHANGED <<parseVars, convVars>>

\* The process writes a chunk to one of its streams.
ProcWrite ==
    /\ proc = "running"
    /\ \E fd \in Fds :
        /\ written[fd] < MaxChunks
        /\ written' = [written EXCEPT ![fd] = @ + 1]
    /\ UNCHANGED <<rpc, rret, proc, exit, shown, rclosed, gor, rcaller>>
    /\ UNCHANGED <<parseVars, convVars>>

\* The process exits, with status 0 or not; its ends of the pipes close.
ProcExit ==
    /\ proc = "running"
    /\ proc' = "exited"
    /\ exit' \in {"nil", "exit status"}
    /\ UNCHANGED <<rpc, rret, written, shown, rclosed, gor, rcaller>>
    /\ UNCHANGED <<parseVars, convVars>>

\* io.Copy, lines 272-273: the goroutine reads a chunk from the pipe and
\* writes it to the stream of deb2aci.
GoCopy ==
    /\ \E fd \in Fds :
        /\ gor[fd] = "copying"
        /\ ~rclosed
        /\ shown[fd] < written[fd]
        /\ shown' = [shown EXCEPT ![fd] = @ + 1]
    /\ UNCHANGED <<rpc, rret, proc, exit, written, rclosed, gor, rcaller>>
    /\ UNCHANGED <<parseVars, convVars>>

\* io.Copy returns and the goroutine ends: Read met the end of the stream
\* (the process has exited and the pipe is empty) or the closed read end.
GoFinish ==
    /\ \E fd \in Fds :
        /\ gor[fd] = "copying"
        /\ rclosed \/ (proc = "exited" /\ shown[fd] = written[fd])
        /\ gor' = [gor EXCEPT ![fd] = "done"]
    /\ UNCHANGED <<rpc, rret, proc, exit, written, shown, rclosed, rcaller>>
    /\ UNCHANGED <<parseVars, convVars>>

\* run returning only when both goroutines have ended as well.
MayReturnJoined == proc = "exited" /\ \A fd \in Fds : gor[fd] = "done"

\* cmd.Run, line 274, its second half (Wait): it returns when the process
\* has exited.
MayReturn == proc = "exited"

\* return cmd.Run(), line 274: Wait has seen the process exit, closes the
\* read ends of the pipes, and run returns what Wait reports.
RunReturn ==
    /\ rpc = "wait"
    /\ MayReturn
    /\ rclosed' = TRUE
    /\ rret' = exit
    /\ rpc' = "returned"
    /\ UNCHANGED <<proc, exit, written, shown, gor, rcaller>>
    /\ UNCHANGED <<parseVars, convVars>>

\* The caller of run goes on: to its next step when run returned nil, to
\* its own return otherwise.
CallerNext ==
    /\ rpc = "returned"
    /\ rcaller = "in run"
    /\ rcaller' = "next"
    /\ UNCHANGED <<rpc, rret, proc, exit, written, shown, rclosed, gor>>
    /\ UNCHANGED <<parseVars, convVars>>

RunNext ==
    \/ RunPipes
    \/ RunStart
    \/ ProcWrite
    \/ ProcExit
    \/ GoCopy
    \/ GoFinish
    \/ RunReturn
    \/ CallerNext

SpecRun == RunInit /\ [][RunNext]_vars

(***************************************************************************)
(* Properties of the resolver                                              *)
(***************************************************************************)
\* The names a package's Depends field parses to.
DepNames(n) == Range(parseDeps(repo[n].Depends))

\* The names reachable from the names of S through DepNames.
RECURSIVE ReachableFrom(_)
ReachableFrom(S) ==
    LET more == S \cup UNION {DepNames(n) : n \in S}
    IN IF more = S THEN S ELSE ReachableFrom(more)

\* Every call of download has returned nil: the loop of convert is over.
ResolutionComplete ==
    \/ cpc = "download" /\ stack = <<>> /\ ~HasCallee
    \/ cpc \in {"createACI", "pack"}

\* C1: when resolution completes, the keys of the closure map are exactly the
\* names reachable from the roots through the parsed dependency names, each
\* key holding the deb of that name.
ClosureIsReachableSet ==
    ResolutionComplete =>
        /\ DOMAIN done = ReachableFrom(Range(pkgs))
        /\ \A n \in DOMAIN done : done[n].Name = n
        /\ Cardinality(DOMAIN done) = Cardinality(ReachableFrom(Range(pkgs)))

\* The diamond a -> {b, c}, b -> d, c -> d resolved from the root a: four
\* names in the closure.
DiamondResolved ==
    /\ ResolutionComplete
    /\ repo = DiamondRepo
    /\ pkgs = <<PkgA>>
    /\ DOMAIN done = {PkgA, PkgB, PkgC, PkgD}

\* C2: apt-get download is run at most once for every name, and an entry of
\* the map, once recorded, is never changed or removed.
FetchedAtMostOnce ==
    /\ [](\A n \in Names : Count(n, FetchLog) <= 1)
    /\ [][\A n \in DOMAIN done : n \in DOMAIN done' /\ done'[n] = done[n]]_vars

\* In the diamond, download(d) called from c has returned without fetching:
\* d was fetched once, from b.
DiamondSecondVisitSkipped ==
    /\ repo = DiamondRepo
    /\ cpc = "download"
    /\ stack # <<>>
    /\ Top.pkg = PkgC
    /\ Top.i = 2
    /\ Count(PkgD, FetchLog) = 1

\* C3: resolution terminates, whatever cycles the dependency graph has:
\* convert returns, and with it every call of download.
ResolutionTerminates == <>(cpc = "returned" /\ stack = <<>>)

\* download is called for a name whose own call is still active: the graph
\* has a cycle through it.
CycleMet ==
    /\ cpc = "download"
    /\ stack # <<>>
    /\ HasCallee
    /\ \E k \in 1..Len(stack) : stack[k].pkg = Callee

(***************************************************************************)
(* Properties of the assembler                                             *)
(***************************************************************************)
\* The annotation key of a package name (defined when sanitizing succeeds).
KeyOf(n) == SanitizeACIdentifier(IdentifierOf(n)).id

BaseNames == {base[i].name : i \in 1..Len(base)}

\* The loop of createACI ran to its end without an error.
AnnotatedAll == cpc = "pack"

\* C4: after a successful createACI whose base manifest holds no annotation
\* under a package's key, one annotation was added for each package of the
\* closure and no two packages share a key.
OneAnnotationPerPackage ==
    (AnnotatedAll /\ \A n \in DOMAIN done : KeyOf(n) \notin BaseNames) =>
        /\ Len(manifest) = Len(base) + Cardinality(DOMAIN done)
        /\ \A m, n \in DOMAIN done : m # n => KeyOf(m) # KeyOf(n)

OwnersOf(p) == SelectSeq(CopyLog, LAMBDA n : p \in repo[n].Files)

\* C8: while and after the trees are merged, every path of the root
\* filesystem holds the file of the package copied last among those whose
\* tree holds it, and a path no copied tree holds is absent.
LastCopyWins ==
    cpc \in {"createACI", "pack"} =>
        \A p \in Paths :
            IF OwnersOf(p) = <<>>
            THEN p \notin DOMAIN rootfs
            ELSE /\ p \in DOMAIN rootfs
                 /\ rootfs[p] = OwnersOf(p)[Len(OwnersOf(p))]

\* Two packages collided on a path, another path came from one package only,
\* and the merge went through to the manifest being written.
CollisionMerged ==
    /\ cpc = "pack"
    /\ err = <<>>
    /\ \E p, q \in Paths : Len(OwnersOf(p)) >= 2 /\ Len(OwnersOf(q)) = 1

(***************************************************************************)
(* Properties of the error paths                                           *)
(***************************************************************************)
Ran(c) == \E i \in 1..Len(cmdLog) : cmdLog[i].cmd = c

\* C9: when Glob matches no archive or more than one, convert has returned
\* that error, the working directory is removed, the manifest file was not
\* written and the packer not run.
GlobMismatchAborts ==
    (err # <<>> /\ err[1] \in {"glob0", "glob2"}) =>
        /\ cpc = "returned"
        /\ stack = <<>>
        /\ ~dirExists
        /\ cmdLog[Len(cmdLog)] = Cmd("apt-get", err[2])
        /\ ~Ran("cp") /\ ~Ran("write") /\ ~Ran("actool")
        /\ manifestFile = <<>>
        /\ image = <<>>

\* The archive of a transitive dependency matched twice.
GlobMismatchOnDependency ==
    /\ err # <<>>
    /\ err[1] = "glob2"
    /\ err[2] \notin Range(pkgs)
    /\ Len(FetchLog) >= 2

RECURSIVE FieldsFrom(_, _)
FieldsFrom(s, cur) ==
    IF s = <<>> THEN (IF cur = <<>> THEN <<>> ELSE <<cur>>)
    ELSE IF IsSpace(Head(s))
         THEN (IF cur = <<>> THEN <<>> ELSE <<cur>>) \o FieldsFrom(Tail(s), <<>>)
         ELSE FieldsFrom(Tail(s), Append(cur, Head(s)))

Fields(s) == FieldsFrom(s, <<>>)

\* The first token of every comma separated clause of l that has one.
RECURSIVE FirstTokens(_)
FirstTokens(clauses) ==
    IF clauses = <<>> THEN <<>>
    ELSE (IF Fields(Head(clauses)) = <<>> THEN <<>>
          ELSE <<Fields(Head(clauses))[1]>>)
         \o FirstTokens(Tail(clauses))

\* C6: the names parseDeps returns are, in declaration order, the first white
\* space delimited token of each comma separated clause.
FirstTokenOfEachClause ==
    ppc = "returned" =>
        SelectSeq(deps, LAMBDA d : d # <<>>) = FirstTokens(Split(line, ","))

\* C7: parseDeps returns no empty name.
NoEmptyName ==
    ppc = "returned" => \A i \in 1..Len(deps) : deps[i] # <<>>

(***************************************************************************)
(* Fail-fast                                                               *)
(***************************************************************************)
\* The command a failure of kind k for the name n was the failure of.
FailedCmd(k, n) ==
    CASE k \in {"cp", "sanitize", "identifier"} -> Cmd("cp", n)
      [] k = "write" -> Cmd("write", NoName)
      [] k = "actool" -> Cmd("actool", NoName)
      [] OTHER -> Cmd("apt-get", n)

ValidSegment(n) == ValidACIdentifier(n) /\ "/" \notin Range(n)

\* The annotation the claim describes for the package n of the repository.
ArchiveAnnotation(n) ==
    [name |-> <<"d", "e", "b", "i", "a", "n", ".", "o", "r", "g", "/",
                "d", "e", "b", "/">> \o n,
     value |-> repo[n].Architecture \o <<"/">> \o repo[n].Version]

\* C12: when createACI has copied and annotated a package whose name is a
\* valid identifier segment, the manifest holds the annotation named
\* debian.org/deb/<name> whose value is <architecture>/<version> of that
\* package's own archive.
AnnotationFromOwnArchive ==
    [][\A n \in DOMAIN done :
          (n \in iterated' \ iterated /\ cpc' = "createACI" /\ ValidSegment(n))
              => \E i \in 1..Len(manifest') : manifest'[i] = ArchiveAnnotation(n)]_vars

\* Package b (architecture all, version 2.1-3) was annotated after another
\* package of the closure.
AnnotatedB ==
    /\ cpc = "pack"
    /\ Cardinality(DOMAIN done) >= 2
    /\ \E i \in 2..Len(manifest) :
          manifest[i] = [name |-> IdentifierOf(PkgB),
                         value |-> <<"a", "l", "l", "/", "2", ".", "1", "-", "3">>]

(***************************************************************************)
(* parseDeps on an empty declaration                                       *)
(***************************************************************************)
Blank(l) == \A i \in 1..Len(l) : l[i] \in {" ", "\t"}

\* C13: parseDeps returns on every field; on an empty field and on one of
\* white space only it returns the empty sequence, so download has no
\* dependency to recurse into; on any other field it returns at least one
\* name.
EmptyDeclarationNoDeps ==
    /\ ppc = "call" => Len(parseDeps(line)) >= 0
    /\ ppc = "returned" =>
          /\ DOMAIN deps = 1..Len(deps)
          /\ Blank(line) => deps = <<>>
          /\ ~Blank(line) => Len(deps) >= 1

\* parseDeps has returned on a field of a space and a tab.
BlankLineParsed ==
    /\ ppc = "returned"
    /\ line = <<" ", "\t">>
    /\ deps = <<>>

(***************************************************************************)
(* The order of the merge                                                  *)
(***************************************************************************)
IndexIn(x, log) == CHOOSE i \in 1..Len(log) : log[i] = x

\* The packages whose tree holds path p, in the order of their first fetch.
DiscoveredOwnersOf(p) == SelectSeq(FetchLog, LAMBDA n : p \in repo[n].Files)

\* C14 as stated: the trees are copied in the order the packages were first
\* fetched, and every path of the merged root filesystem holds the file of
\* the package discovered last among those whose tree holds it.
CopiesInDiscoveryOrder ==
    cpc \in {"createACI", "pack"} =>
        /\ Len(CopyLog) <= Len(FetchLog)
        /\ CopyLog = SubSeq(FetchLog, 1, Len(CopyLog))
        /\ cpc = "pack" =>
              \A p \in DOMAIN rootfs :
                  rootfs[p] = DiscoveredOwnersOf(p)[Len(DiscoveredOwnersOf(p))]

\* C14, amended: the merge copies every package of the closure exactly once,
\* in the order range yields them, and a path holds the file of the package
\* copied last among those whose tree holds it, whenever it was discovered.
CopiesEachOnceInAnyOrder ==
    /\ \A i, j \in 1..Len(CopyLog) : CopyLog[i] = CopyLog[j] => i = j
    /\ cpc \in {"createACI", "pack"} =>
          /\ Range(CopyLog) = iterated
          /\ iterated \subseteq DOMAIN done
          /\ \A p \in DOMAIN rootfs : rootfs[p] = CopyLog[Len(CopyLog)]
                                      \/ p \notin repo[CopyLog[Len(CopyLog)]].Files
    /\ cpc = "pack" => Range(CopyLog) = DOMAIN done

\* The trees were copied in another order than the packages were discovered,
\* and a path two packages collide on holds the file of the one discovered
\* first.
CopiedAgainstDiscoveryOrder ==
    /\ cpc = "pack"
    /\ CopyLog # FetchLog
    /\ \E p \in DOMAIN rootfs :
          \E n \in DOMAIN done :
              /\ p \in repo[n].Files
              /\ n # rootfs[p]
              /\ IndexIn(rootfs[p], FetchLog) < IndexIn(n, FetchLog)

(***************************************************************************)
(* The order of the fetches                                                *)
(***************************************************************************)
\* The depth-first pre-order of the dependency graph: the names of list are
\* visited from left to right, a name not seen before is appended and its
\* dependencies are visited, in the order of their declaration, before the
\* next name of list.
RECURSIVE PreOrder(_, _)
PreOrder(list, seen) ==
    IF list = <<>> THEN seen
    ELSE IF Head(list) \in Range(seen) THEN PreOrder(Tail(list), seen)
    ELSE PreOrder(Tail(list),
                  PreOrder(parseDeps(repo[Head(list)].Depends),
                           Append(seen, Head(list))))

\* C15: the names are fetched in the depth-first pre-order of the dependency
\* graph from the roots in the order given: the fetches made so far are the
\* beginning of that order and, when resolution completes, the whole of it;
\* a package whose dependencies are being fetched is already recorded.
FetchesInPreOrder ==
    LET order == PreOrder(pkgs, <<>>)
        fetched == FetchLog
    IN /\ Len(fetched) <= Len(order)
       /\ fetched = SubSeq(order, 1, Len(fetched))
       /\ ResolutionComplete => fetched = order
       /\ \A k \in 1..Len(stack) : stack[k].pkg \in DOMAIN done

\* The diamond resolved from the roots b, a: b and its subtree d first, then
\* a, whose dependency b is skipped, then c.
DiamondFromTwoRoots ==
    /\ ResolutionComplete
    /\ repo = DiamondRepo
    /\ pkgs = <<PkgB, PkgA>>
    /\ FetchLog = <<PkgB, PkgD, PkgA, PkgC>>

(***************************************************************************)
(* The order of the stages                                                 *)
(***************************************************************************)
StageOf(c) ==
    CASE c = "apt-get" -> 1
      [] c = "cp" -> 2
      [] c = "write" -> 3
      [] c = "actool" -> 4

\* The annotations annos hold one under the key of every package of the
\* closure.
AnnotatesClosure(annos) ==
    \A n \in DOMAIN done : \E i \in 1..Len(annos) : annos[i].name = KeyOf(n)

\* The tree fs holds every path of the tree of every package of the closure.
HoldsClosureTrees(fs) ==
    \A n \in DOMAIN done : repo[n].Files \subseteq DOMAIN fs

\* C16: the commands run in the order of the stages: every fetch before every
\* copy, every copy before the manifest is written, the write before the
\* packer. A tree is copied only when the closure is whole, the manifest is
\* written only when every package was copied and annotated, and when the
\* packer starts the root filesystem holds every package's tree and the
\* manifest written holds an annotation under every package's key.
StagesInOrder ==
    /\ \A i \in 1..(Len(cmdLog) - 1) :
          /\ StageOf(cmdLog[i].cmd) <= StageOf(cmdLog[i + 1].cmd)
          /\ StageOf(cmdLog[i].cmd) >= 3
                => StageOf(cmdLog[i].cmd) < StageOf(cmdLog[i + 1].cmd)
    /\ Ran("cp") => /\ stack = <<>>
                    /\ rootIdx > Len(pkgs)
                    /\ DOMAIN done = ReachableFrom(Range(pkgs))
    /\ Ran("write") => /\ Range(CopyLog) = DOMAIN done
                       /\ AnnotatesClosure(manifest)
    /\ Ran("actool") => Ran("write")
    /\ cpc = "pack" => /\ HoldsClosureTrees(rootfs)
                       /\ manifestFile = <<manifest>>
                       /\ AnnotatesClosure(manifestFile[1])
    /\ image # <<>> => /\ HoldsClosureTrees(image[1].rootfs)
                       /\ AnnotatesClosure(image[1].manifest)

\* The packer is about to start on the diamond: four fetches, four copies and
\* the write of the manifest are behind.
DiamondReadyToPack ==
    /\ cpc = "pack"
    /\ repo = DiamondRepo
    /\ Cardinality(DOMAIN done) = 4
    /\ Len(FetchLog) = 4
    /\ Len(CopyLog) = 4
    /\ Ran("write")

(***************************************************************************)
(* The merge without collisions                                            *)
(***************************************************************************)
\* No two of the packages of S hold a file at the same path.
NoCollision(S) ==
    \A m, n \in S : m # n => repo[m].Files \cap repo[n].Files = {}

\* The union of the trees of the packages of S, which is a tree when no two
\* of them collide.
UnionOfTrees(S) ==
    [p \in UNION {repo[n].Files : n \in S} |->
        CHOOSE n \in S : p \in repo[n].Files]

\* C18: as long as no two of the packages copied collide on a path, the root
\* filesystem is the union of their trees, whatever the order of the copies.
UnionWhenNoCollision ==
    (cpc \in {"createACI", "pack"} /\ NoCollision(iterated)) =>
        rootfs = UnionOfTrees(iterated)

\* Two packages with trees of their own that do not collide were merged, in
\* the order opposite to their discovery.
DisjointTreesMerged ==
    /\ cpc = "pack"
    /\ NoCollision(DOMAIN done)
    /\ Len(CopyLog) = 2
    /\ CopyLog = <<FetchLog[2], FetchLog[1]>>
    /\ \A n \in DOMAIN done : repo[n].Files # {}

(***************************************************************************)
(* run and its goroutines                                                  *)
(***************************************************************************)
\* C17: run starts the two goroutines together and returns what the process
\* ended with, whatever the goroutines are doing: as soon as the process has
\* exited run can return, and the value it returned is the process's result.
RunReturnsWithoutJoin ==
    /\ gor["stdout"] = "none" <=> gor["stderr"] = "none"
    /\ rpc \in {"start", "wait"} => \A fd \in Fds : gor[fd] # "none"
    /\ (rpc = "wait" /\ proc = "exited") => ENABLED RunReturn
    /\ (rpc = "returned" /\ proc = "exited") => rret = exit

\* run has returned nil and its caller has gone on while the goroutine of
\* stdout is still copying, a chunk the process wrote not shown.
ReturnedWhileStreaming ==
    /\ rpc = "returned"
    /\ rret = "nil"
    /\ rcaller = "next"
    /\ gor["stdout"] = "copying"
    /\ shown["stdout"] < written["stdout"]

====
